---------------------------- MODULE Spec2Model ----------------------------
(***************************************************************************)
(* Model of open_source/mortality/aggregation_ARIMA_squeeze/remove_drift.py *)
(*                                                                         *)
(*   get_lr_params            OLS intercept/slope of one series            *)
(*   get_all_lr_params        the fit of every sex/age/location series     *)
(*   make_single_predictions  linear past values, decayed-drift forecasts  *)
(*   get_decayed_drift_preds  the predictions of every combination         *)
(*                                                                         *)
(* Numbers.  A float is modelled by an exact rational <<num, den>> in      *)
(* lowest terms with den > 0; NaN is <<0, 0>> and is absorbing, as in      *)
(* IEEE-754 arithmetic.  Rounding error is not modelled: equalities below  *)
(* are the exact-arithmetic statements of the code's float equalities.     *)
(*                                                                         *)
(* Decay.  The decay rate enters the code only through                     *)
(* np.exp(-decay * year_index).  A decay rate is modelled by the natural   *)
(* number k >= 1 with decay = ln k, so that exp(-decay * j) = 1 / k^j:     *)
(* k = 1 is decay = 0, k = 2 is decay = ln 2.                              *)
(*                                                                         *)
(* Arrays.  xarray objects live in a heap of array objects addressed by    *)
(* reference, so that aliasing between the input, the parameter arrays and *)
(* the prediction array is something the model can get wrong.              *)
(***************************************************************************)
EXTENDS Integers, Sequences, FiniteSets, TLC

VARIABLES
    heap,       \* sequence of array objects; a reference is an index into it
    eps_da,     \* reference of the input array (0: none)
    da_in,      \* the input array object as it was passed in
    years,      \* the YearRange: [past_years, forecast_years]
    decay,      \* k, standing for the decay rate ln k
    pc,         \* position in the running function
    param_ds,   \* [alpha |-> ref, beta |-> ref], the parameter dataset
    pred_da,    \* reference of the prediction array (0: none)
    todo,       \* the combinations the running triple loop has yet to visit
    sub_dict,   \* local: the combination of the current loop iteration
    ts,         \* the series last passed to get_lr_params
    calls,      \* [fit |-> n, pred |-> n]: calls made to the two per-series functions
    alpha,      \* local: intercept
    beta,       \* local: slope
    preds       \* local: the array make_single_predictions returned

vars == <<heap, eps_da, da_in, years, decay, pc, param_ds, pred_da, todo, sub_dict, ts,
          calls, alpha, beta, preds>>

----------------------------------------------------------------------------
(* Bounds of the model.                                                    *)

MaxSeriesLen == 3   \* longest series handed to get_lr_params on its own
MaxVal == 2         \* series values range over -MaxVal..MaxVal
MaxCoef == 2        \* alpha and beta given to make_single_predictions
MaxPast == 3        \* most past years given to make_single_predictions
MaxForecast == 3    \* most forecast years given to make_single_predictions
MaxYears == 2       \* most year_id labels of the input array of the grid run

----------------------------------------------------------------------------
(* float64 arithmetic: exact rationals with an absorbing NaN.              *)

NaN == <<0, 0>>

Rat(n) == <<n, 1>>

IsNaN(x) == x[2] = 0

Abs(n) == IF n < 0 THEN -n ELSE n

RECURSIVE GCD(_, _)
GCD(a, b) == IF b = 0 THEN a ELSE GCD(b, a % b)

Norm(n, d) ==
    IF d = 0 THEN NaN
    ELSE LET g == GCD(Abs(n), Abs(d))
             s == IF d < 0 THEN -1 ELSE 1
         IN  <<(s * n) \div g, (s * d) \div g>>

Add(x, y) ==
    IF IsNaN(x) \/ IsNaN(y) THEN NaN
    ELSE Norm(x[1] * y[2] + y[1] * x[2], x[2] * y[2])

Neg(x) == IF IsNaN(x) THEN NaN ELSE <<-x[1], x[2]>>

Sub(x, y) == Add(x, Neg(y))

Mul(x, y) ==
    IF IsNaN(x) \/ IsNaN(y) THEN NaN
    ELSE Norm(x[1] * y[1], x[2] * y[2])

Div(x, y) ==
    IF IsNaN(x) \/ IsNaN(y) \/ y[1] = 0 THEN NaN
    ELSE Norm(x[1] * y[2], x[2] * y[1])

Less(x, y) == ~IsNaN(x) /\ ~IsNaN(y) /\ x[1] * y[2] < y[1] * x[2]

RECURSIVE Pow(_, _)
Pow(k, j) == IF j = 0 THEN 1 ELSE k * Pow(k, j - 1)

RECURSIVE SumSeq(_, _)
SumSeq(s, n) == IF n = 0 THEN Rat(0) ELSE Add(SumSeq(s, n - 1), s[n])

----------------------------------------------------------------------------
(* get_lr_params: lines 6-20.                                              *)

\* np.arange(len(ts)) with the wrong origin, 1..n
arange_from_one(n) == [i \in 1..n |-> i]

\* line 16: np.arange(len(ts)) = 0, 1, ..., n-1
arange(n) == [i \in 1..n |-> i - 1]

\* line 18: OLS drops missing observations (missing='drop') before fitting
ols_endog_dropna(s) == SelectSeq(s, LAMBDA v : ~IsNaN(v))

\* line 18: sm.OLS(ts.values, xdata) takes the observations as they are
\* (missing='none'): nothing is dropped, nothing is checked.
ols_endog(s) == s

\* lines 16-20.  OLS of y on the columns [1, t], fitted by the pseudo-inverse.
\* n >= 2: the design has full column rank and the parameters solve the normal
\* equations.  n = 1: the design is the single row [1, 0], whose pseudo-inverse
\* is the column [1, 0], so the parameters are (1 * y0, 0 * y0).
get_lr_params(series) ==
    LET y  == ols_endog(series)
        n  == Len(y)
        t  == arange(n)
        S0 == Rat(n)
        S1 == SumSeq([i \in 1..n |-> Rat(t[i])], n)
        S2 == SumSeq([i \in 1..n |-> Rat(t[i] * t[i])], n)
        T0 == SumSeq(y, n)
        T1 == SumSeq([i \in 1..n |-> Mul(Rat(t[i]), y[i])], n)
        det == Sub(Mul(S0, S2), Mul(S1, S1))
    IN  IF n = 0 THEN <<NaN, NaN>>   \* no caller passes an empty series
        ELSE IF n = 1 THEN <<Mul(Rat(1), y[1]), Mul(Rat(0), y[1])>>
        ELSE <<Div(Sub(Mul(S2, T0), Mul(S1, T1)), det),
               Div(Sub(Mul(S0, T1), Mul(S1, T0)), det)>>

----------------------------------------------------------------------------
(* make_single_predictions: lines 59-89.                                   *)

\* the YearRange with P past years and F forecast years, contiguous from 2000
YearRange(P, F) ==
    [past_years     |-> [i \in 1..P |-> 1999 + i],
     forecast_years |-> [i \in 1..F |-> 1999 + P + i]]

\* years.years: the concatenation
AllYears(yr) == yr.past_years \o yr.forecast_years

\* np.exp(-decay * (year_index + 1)): the first forecast step already attenuated
exp_neg_from_one(k, year_index) == <<1, Pow(k, year_index + 1)>>

\* line 86: np.exp(-decay * year_index), with decay = ln k
exp_neg(k, year_index) == <<1, Pow(k, year_index)>>

\* lines 85-88 without "last = current": every step starts from preds[-1] of
\* the linear part
RECURSIVE forecast_loop_stale(_, _, _, _, _, _)
forecast_loop_stale(p, last, b, k, year_index, F) ==
    IF year_index >= F THEN p
    ELSE LET current == Add(last, Mul(b, exp_neg(k, year_index)))
         IN  forecast_loop_stale(Append(p, current), last, b, k, year_index + 1, F)

\* lines 85-88: the loop over range(len(years.forecast_years))
RECURSIVE forecast_loop(_, _, _, _, _, _)
forecast_loop(p, last, b, k, year_index, F) ==
    IF year_index >= F THEN p
    ELSE LET current == Add(last, Mul(b, exp_neg(k, year_index)))
         IN  forecast_loop(Append(p, current), current, b, k, year_index + 1, F)

\* line 84: preds[-1] raises IndexError on an empty array
preds_last_raises(yr) == Len(yr.past_years) = 0

\* lines 79-89, for a year range with at least one past year
make_single_predictions(a, b, yr, k) ==
    LET P == Len(yr.past_years)
        linear_years == arange(P)
        linear == [i \in 1..P |-> Add(a, Mul(b, Rat(linear_years[i])))]
    IN  forecast_loop(linear, linear[P], b, k, 0, Len(yr.forecast_years))

----------------------------------------------------------------------------
(* Array objects and the heap: xarray.DataArray, lines 39-41, 52-55,       *)
(* 113-116, 127-132.                                                        *)

\* the label set of a coordinate
Labels(coord) == {coord[i] : i \in 1..Len(coord)}

\* the cells of an array with the given coordinates; an array without a
\* year_id dimension is addressed by <<sex_id, age_group_id, location_id>>
CellKeys(sex, age, loc, year, year_dim) ==
    IF year_dim
    THEN Labels(sex) \X Labels(age) \X Labels(loc) \X Labels(year)
    ELSE Labels(sex) \X Labels(age) \X Labels(loc)

\* a new array object with every cell set to v
NewArray(sex, age, loc, year, year_dim, v) ==
    [sex_id |-> sex, age_group_id |-> age, location_id |-> loc,
     year_id |-> year, year_dim |-> year_dim,
     cells |-> [key \in CellKeys(sex, age, loc, year, year_dim) |-> v]]

\* line 39: da.year_id.values.min() raises ValueError on a zero-size array;
\* here taken over da.values instead of da.year_id.values
min_raises_on_values(arr) == DOMAIN arr.cells = {}

\* line 39: da.year_id.values.min() raises ValueError on a zero-size array
min_raises(arr) == Len(arr.year_id) = 0

\* line 39: da.sel(year_id=...).drop("year_id") * np.nan is a new array over
\* the non-year coordinates, every cell NaN
param_da_of(arr) ==
    NewArray(arr.sex_id, arr.age_group_id, arr.location_id, <<>>, FALSE, NaN)

\* "alpha": param_da, "beta": param_da -- no copy: the object itself
copy_alias(h, ref) == <<h, ref>>

\* lines 40-41: param_da.copy() is a new object with the same contents;
\* the result is <<the heap with it, its reference>>
copy(h, ref) == <<Append(h, h[ref]), Len(h) + 1>>

\* lines 54-55: arr.loc[sub_dict] = value, on an array without year_id
store(h, ref, key, v) == [h EXCEPT ![ref].cells[key] = v]

\* lines 129-132: pred_da.loc[sub_dict] = values, assigned along year_id in
\* coordinate order
store_series(h, ref, key, values) ==
    LET yrs == h[ref].year_id
    IN  [h EXCEPT ![ref].cells =
            [c \in DOMAIN @ |->
                IF <<c[1], c[2], c[3]>> = key
                THEN LET k == CHOOSE i \in 1..Len(yrs) : yrs[i] = c[4]
                     IN  values[k]
                ELSE @[c]]]

\* line 52: da.loc[sub_dict], the 1-d series along year_id in the order the
\* year_id coordinate is stored
loc_series(arr, key) ==
    [i \in 1..Len(arr.year_id) |->
        arr.cells[<<key[1], key[2], key[3], arr.year_id[i]>>]]

\* the triple loop with the innermost range one short
combos_short(arr) ==
    LET ns == Len(arr.sex_id)
        na == Len(arr.age_group_id)
        nl == Len(arr.location_id)
        full == [i \in 1..(ns * na * nl) |->
                    <<arr.sex_id[((i - 1) \div (na * nl)) + 1],
                      arr.age_group_id[(((i - 1) \div nl) % na) + 1],
                      arr.location_id[((i - 1) % nl) + 1]>>]
    IN  SubSeq(full, 1, Len(full) - 1)

\* lines 44-46 and 119-121: the combinations in the order the triple loop
\* (sex_id, then age_group_id, then location_id) visits them
combos(arr) ==
    LET ns == Len(arr.sex_id)
        na == Len(arr.age_group_id)
        nl == Len(arr.location_id)
    IN  [i \in 1..(ns * na * nl) |->
            <<arr.sex_id[((i - 1) \div (na * nl)) + 1],
              arr.age_group_id[(((i - 1) \div nl) % na) + 1],
              arr.location_id[((i - 1) % nl) + 1]>>]

----------------------------------------------------------------------------
(* The inputs of the grid run.                                             *)

\* coordinate label lists of the three demographic dimensions: empty, one
\* label, two labels stored in descending order
LabelLists == {<<>>, <<1>>, <<2, 1>>}

\* the grids of at most two combinations
GridShapes ==
    {shape \in LabelLists \X LabelLists \X LabelLists :
        Len(shape[1]) * Len(shape[2]) * Len(shape[3]) <= 2}

\* year_id coordinates of the input: 0..MaxYears consecutive years from 2000,
\* stored ascending or descending
YearLists ==
    {[i \in 1..n |-> 1999 + i] : n \in 0..MaxYears}
        \cup {[i \in 1..n |-> 2000 + n - i] : n \in 2..MaxYears}

\* cell values of the input
GridVals == {Rat(0), Rat(1), NaN}

\* decay rates: 0 and ln 2
GridDecays == {1, 2}

NoArray == [sex_id |-> <<>>, age_group_id |-> <<>>, location_id |-> <<>>,
            year_id |-> <<>>, year_dim |-> FALSE, cells |-> <<>>]

NoYears == YearRange(0, 0)

----------------------------------------------------------------------------
(* get_decayed_drift_preds(eps_da, years, decay), lines 92-133, with the   *)
(* call of get_all_lr_params(eps_da), lines 23-56, inlined.                 *)

Init ==
    \E shape \in GridShapes, yrs \in YearLists :
      \E cells \in [CellKeys(shape[1], shape[2], shape[3], yrs, TRUE) -> GridVals] :
        \E P \in 0..MaxYears, F \in 0..1, k \in GridDecays :
          LET sex == shape[1]
              age == shape[2]
              loc == shape[3]
          IN
            /\ da_in = [sex_id |-> sex, age_group_id |-> age, location_id |-> loc,
                        year_id |-> yrs, year_dim |-> TRUE, cells |-> cells]
            /\ heap = <<da_in>>
            /\ eps_da = 1
            /\ years = YearRange(P, F)
            /\ decay = k
            /\ pc = "start"
            /\ param_ds = [alpha |-> 0, beta |-> 0]
            /\ pred_da = 0
            /\ todo = <<>>
            /\ sub_dict = <<>>
            /\ ts = <<>>
            /\ calls = [fit |-> 0, pred |-> 0]
            /\ alpha = NaN
            /\ beta = NaN
            /\ preds = <<>>

\* line 39 raises: the input has no year_id label
ParamsRaise ==
    /\ pc = "start"
    /\ min_raises(heap[eps_da])
    /\ pc' = "error"
    /\ UNCHANGED <<sub_dict, heap, eps_da, da_in, years, decay, param_ds, pred_da, todo,
                   ts, calls, alpha, beta, preds>>

\* lines 39-41: param_da, and the dataset of its two copies
AllocParams ==
    /\ pc = "start"
    /\ ~min_raises(heap[eps_da])
    /\ LET h0  == Append(heap, param_da_of(heap[eps_da]))
           pda == Len(heap) + 1
           ca  == copy(h0, pda)
           cb  == copy(ca[1], pda)
       IN  /\ heap' = cb[1]
           /\ param_ds' = [alpha |-> ca[2], beta |-> cb[2]]
    /\ todo' = combos(heap[eps_da])
    /\ pc' = "fit_loop"
    /\ UNCHANGED <<sub_dict, eps_da, da_in, years, decay, pred_da, ts, calls, alpha, beta, preds>>

\* lines 47-55: one iteration of the innermost loop
FitStep ==
    /\ pc = "fit_loop"
    /\ todo # <<>>
    /\ LET key    == Head(todo)
           series == loc_series(heap[eps_da], key)
           fit    == get_lr_params(series)
       IN  /\ sub_dict' = key
           /\ ts' = series
           /\ alpha' = fit[1]
           /\ beta' = fit[2]
           /\ heap' = store(store(heap, param_ds.alpha, key, fit[1]),
                            param_ds.beta, key, fit[2])
    /\ calls' = [calls EXCEPT !.fit = @ + 1]
    /\ todo' = Tail(todo)
    /\ UNCHANGED <<eps_da, da_in, years, decay, pc, param_ds, pred_da, preds>>

\* line 56: return param_ds (back in get_decayed_drift_preds, line 110)
ReturnParams ==
    /\ pc = "fit_loop"
    /\ todo = <<>>
    /\ pc' = "params_returned"
    /\ UNCHANGED <<sub_dict, heap, eps_da, da_in, years, decay, param_ds, pred_da, todo,
                   ts, calls, alpha, beta, preds>>

\* lines 113-116: params["alpha"] * year_da * np.nan, a new array over the
\* parameter coordinates and years.years
AllocPreds ==
    /\ pc = "params_returned"
    /\ LET pa  == heap[param_ds.alpha]
           new == NewArray(pa.sex_id, pa.age_group_id, pa.location_id,
                           AllYears(years), TRUE, NaN)
       IN  /\ heap' = Append(heap, new)
           /\ pred_da' = Len(heap) + 1
           /\ todo' = combos(new)
    /\ pc' = "pred_loop"
    /\ UNCHANGED <<sub_dict, eps_da, da_in, years, decay, param_ds, ts, calls, alpha, beta, preds>>

\* lines 127-132: one iteration of the innermost loop
PredStep ==
    /\ pc = "pred_loop"
    /\ todo # <<>>
    /\ ~preds_last_raises(years)
    /\ LET key == Head(todo)
           a == heap[param_ds.alpha].cells[key]
           b == heap[param_ds.beta].cells[key]
           p == make_single_predictions(a, b, years, decay)
       IN  /\ sub_dict' = key
           /\ alpha' = a
           /\ beta' = b
           /\ preds' = p
           /\ heap' = store_series(heap, pred_da, key, p)
    /\ calls' = [calls EXCEPT !.pred = @ + 1]
    /\ todo' = Tail(todo)
    /\ UNCHANGED <<eps_da, da_in, years, decay, pc, param_ds, pred_da, ts>>

\* line 84 raises inside the call of lines 129-132: there is no past year
PredRaise ==
    /\ pc = "pred_loop"
    /\ todo # <<>>
    /\ preds_last_raises(years)
    /\ calls' = [calls EXCEPT !.pred = @ + 1]
    /\ pc' = "error"
    /\ UNCHANGED <<sub_dict, heap, eps_da, da_in, years, decay, param_ds, pred_da, todo,
                   ts, alpha, beta, preds>>

\* line 133: return pred_da
ReturnPreds ==
    /\ pc = "pred_loop"
    /\ todo = <<>>
    /\ pc' = "done"
    /\ UNCHANGED <<sub_dict, heap, eps_da, da_in, years, decay, param_ds, pred_da, todo,
                   ts, calls, alpha, beta, preds>>

Next ==
    \/ ParamsRaise
    \/ AllocParams
    \/ FitStep
    \/ ReturnParams
    \/ AllocPreds
    \/ PredStep
    \/ PredRaise
    \/ ReturnPreds

Spec == Init /\ [][Next]_vars

----------------------------------------------------------------------------
(* get_lr_params on its own.                                               *)

\* series values: halves in -MaxVal/2..MaxVal/2, and NaN
FitVals == {Norm(v, 2) : v \in (-MaxVal)..MaxVal} \cup {NaN}

SeriesOfLen(n) == [1..n -> FitVals]

InitFit ==
    \E n \in 1..MaxSeriesLen :
      \E series \in SeriesOfLen(n) :
        /\ ts = series
        /\ pc = "fit_call"
        /\ heap = <<>>
        /\ eps_da = 0
        /\ da_in = NoArray
        /\ years = NoYears
        /\ decay = 1
        /\ param_ds = [alpha |-> 0, beta |-> 0]
        /\ pred_da = 0
        /\ todo = <<>>
        /\ sub_dict = <<>>
        /\ calls = [fit |-> 0, pred |-> 0]
        /\ alpha = NaN
        /\ beta = NaN
        /\ preds = <<>>

\* lines 16-20
CallFit ==
    /\ pc = "fit_call"
    /\ alpha' = get_lr_params(ts)[1]
    /\ beta' = get_lr_params(ts)[2]
    /\ calls' = [calls EXCEPT !.fit = @ + 1]
    /\ pc' = "fit_ret"
    /\ UNCHANGED <<sub_dict, heap, eps_da, da_in, years, decay, param_ds, pred_da, todo,
                   ts, preds>>

NextFit == CallFit

SpecFit == InitFit /\ [][NextFit]_vars

----------------------------------------------------------------------------
(* make_single_predictions on its own.                                     *)

\* alpha and beta: halves in -MaxCoef/2..MaxCoef/2
CoefVals == {Norm(v, 2) : v \in (-MaxCoef)..MaxCoef}

\* decay rates 0, ln 2, ln 3
DecayRates == {1, 2, 3}

InitPred ==
    \E a \in CoefVals, b \in CoefVals, P \in 0..MaxPast, F \in 0..MaxForecast,
       k \in DecayRates :
        /\ alpha = a
        /\ beta = b
        /\ years = YearRange(P, F)
        /\ decay = k
        /\ pc = "pred_call"
        /\ heap = <<>>
        /\ eps_da = 0
        /\ da_in = NoArray
        /\ param_ds = [alpha |-> 0, beta |-> 0]
        /\ pred_da = 0
        /\ todo = <<>>
        /\ sub_dict = <<>>
        /\ ts = <<>>
        /\ calls = [fit |-> 0, pred |-> 0]
        /\ preds = <<>>

\* lines 79-89
CallPred ==
    /\ pc = "pred_call"
    /\ ~preds_last_raises(years)
    /\ preds' = make_single_predictions(alpha, beta, years, decay)
    /\ calls' = [calls EXCEPT !.pred = @ + 1]
    /\ pc' = "pred_ret"
    /\ UNCHANGED <<sub_dict, heap, eps_da, da_in, years, decay, param_ds, pred_da, todo,
                   ts, alpha, beta>>

\* line 84 raises IndexError
CallPredRaise ==
    /\ pc = "pred_call"
    /\ preds_last_raises(years)
    /\ calls' = [calls EXCEPT !.pred = @ + 1]
    /\ pc' = "pred_error"
    /\ UNCHANGED <<sub_dict, heap, eps_da, da_in, years, decay, param_ds, pred_da, todo,
                   ts, alpha, beta, preds>>

NextPred == CallPred \/ CallPredRaise

SpecPred == InitPred /\ [][NextPred]_vars

----------------------------------------------------------------------------
(* Properties of make_single_predictions, under SpecPred.                  *)

PastCount == Len(years.past_years)

ForecastCount == Len(years.forecast_years)

\* exp(-decay * j) for decay = ln k, written out: 1 / k^j
DecayFactor(k, j) == Div(Rat(1), Rat(Pow(k, j)))

\* C1: the result has length P+F; pred[i] = alpha + beta*i on the past years;
\* pred[P+j] = pred[P+j-1] + beta*exp(-decay*j) on the forecast years, the
\* first forecast step (j = 0) adding the whole of beta; and alpha = 1,
\* beta = 1, P = 3, F = 2, exp(-decay) = 1/2 gives [1, 2, 3, 4, 4.5].
C1_PredictionSequence ==
    pc = "pred_ret" =>
        /\ Len(preds) = PastCount + ForecastCount
        /\ \A i \in 0..(PastCount - 1) :
              preds[i + 1] = Add(alpha, Mul(beta, Rat(i)))
        /\ \A j \in 0..(ForecastCount - 1) :
              preds[PastCount + j + 1] =
                  Add(preds[PastCount + j], Mul(beta, DecayFactor(decay, j)))
        /\ (alpha = Rat(1) /\ beta = Rat(1) /\ PastCount = 3 /\ ForecastCount = 2
                /\ decay = 2)
             => preds = <<Rat(1), Rat(2), Rat(3), Rat(4), <<9, 2>>>>

C1_Witness ==
    /\ pc = "pred_ret"
    /\ alpha = Rat(1) /\ beta = Rat(1) /\ decay = 2
    /\ PastCount = 3 /\ ForecastCount = 2
    /\ preds = <<Rat(1), Rat(2), Rat(3), Rat(4), <<9, 2>>>>

\* C3: with decay = 0 the call is not rejected and every forecast value
\* continues the historical line: pred[P+j] = pred[P-1] + beta*(j+1).
C3_ZeroDecayLinear ==
    (pc # "pred_call" /\ decay = 1 /\ PastCount >= 1) =>
        /\ pc = "pred_ret"
        /\ \A j \in 0..(ForecastCount - 1) :
              preds[PastCount + j + 1] =
                  Add(preds[PastCount], Mul(beta, Rat(j + 1)))

C3_Witness ==
    /\ pc = "pred_ret"
    /\ decay = 1
    /\ ForecastCount >= 2
    /\ beta # Rat(0)
    /\ preds[PastCount + 2] = Add(preds[PastCount], Mul(beta, Rat(2)))

\* exp(-decay)
DecayRatio == Div(Rat(1), Rat(decay))

\* the limit as stated: last + beta/(1 - exp(-decay)) * exp(-decay)
StatedLimit ==
    Add(preds[PastCount],
        Mul(Div(beta, Sub(Rat(1), DecayRatio)), DecayRatio))

\* the limit of the recursion: last + beta/(1 - exp(-decay))
GeometricLimit ==
    Add(preds[PastCount], Div(beta, Sub(Rat(1), DecayRatio)))

\* C4 as stated: for decay > 0 and beta > 0 the forecast values increase and
\* none exceeds last + beta/(1 - exp(-decay)) * exp(-decay).
C4_StatedLimitBounds ==
    (pc = "pred_ret" /\ decay > 1 /\ Less(Rat(0), beta)) =>
        \A j \in 0..(ForecastCount - 1) :
            /\ Less(preds[PastCount + j], preds[PastCount + j + 1])
            /\ ~Less(StatedLimit, preds[PastCount + j + 1])

\* C4, amended: for decay > 0 the forecast values approach
\* L = last + beta/(1 - exp(-decay)): the distance of pred[P+j] from L is
\* exactly beta*exp(-decay*(j+1))/(1 - exp(-decay)), which shrinks by the
\* factor exp(-decay) each year; for beta > 0 they increase strictly and
\* every one is below L.
C4_GeometricLimit ==
    (pc = "pred_ret" /\ decay > 1) =>
        \A j \in 0..(ForecastCount - 1) :
            /\ Sub(GeometricLimit, preds[PastCount + j + 1]) =
                  Mul(Div(beta, Sub(Rat(1), DecayRatio)), DecayFactor(decay, j + 1))
            /\ Less(Rat(0), beta) =>
                  /\ Less(preds[PastCount + j], preds[PastCount + j + 1])
                  /\ Less(preds[PastCount + j + 1], GeometricLimit)

C4_Witness ==
    /\ pc = "pred_ret"
    /\ decay = 2
    /\ Less(Rat(0), beta)
    /\ ForecastCount = 3
    /\ Less(StatedLimit, preds[PastCount + 2])
    /\ Less(preds[PastCount + 3], GeometricLimit)

----------------------------------------------------------------------------
(* Properties of get_lr_params, under SpecFit.                             *)

HasNaN(s) == \E i \in 1..Len(s) : IsNaN(s[i])

\* s is exactly linear in its index: finite, with constant first differences
ExactlyLinear(s) ==
    /\ ~HasNaN(s)
    /\ \A i \in 1..(Len(s) - 1) : Sub(s[i + 1], s[i]) = Sub(s[2], s[1])

\* C2: for a series of length n >= 2 with y_i = a + b*i, the fit returns
\* alpha = a (= y_0) and beta = b (= y_1 - y_0).
C2_ExactLineRecovered ==
    (pc = "fit_ret" /\ Len(ts) >= 2 /\ ExactlyLinear(ts)) =>
        /\ alpha = ts[1]
        /\ beta = Sub(ts[2], ts[1])

C2_Witness ==
    /\ pc = "fit_ret"
    /\ Len(ts) = 3
    /\ ExactlyLinear(ts)
    /\ ts[1] = <<-1, 1>>
    /\ ts[2] = <<-1, 2>>
    /\ alpha = <<-1, 1>>
    /\ beta = <<1, 2>>

----------------------------------------------------------------------------
(* Properties of get_all_lr_params and get_decayed_drift_preds, under Spec. *)

\* the combinations of the input: sex_id x age_group_id x location_id
InputCombos ==
    Labels(da_in.sex_id) \X Labels(da_in.age_group_id) \X Labels(da_in.location_id)

\* the series of a combination in the input as passed in, in stored year order
InputSeries(key) ==
    [i \in 1..Len(da_in.year_id) |->
        da_in.cells[<<key[1], key[2], key[3], da_in.year_id[i]>>]]

ParamsReturned == pc \in {"params_returned", "pred_loop", "done"}

SomeDimEmpty == InputCombos = {}

\* C5: when get_all_lr_params returns, alpha and beta have exactly one cell
\* per element of sex_id x age_group_id x location_id and no year_id
\* dimension, and each cell holds the fit of its own combination's series
\* (not the NaN placeholder when the series is finite with n >= 1).
C5_OneFitPerCombination ==
    pc = "params_returned" =>
        LET A == heap[param_ds.alpha]
            B == heap[param_ds.beta]
        IN  /\ ~A.year_dim /\ ~B.year_dim
            /\ DOMAIN A.cells = InputCombos
            /\ DOMAIN B.cells = InputCombos
            /\ calls.fit = Cardinality(InputCombos)
            /\ \A key \in InputCombos :
                  /\ A.cells[key] = get_lr_params(InputSeries(key))[1]
                  /\ B.cells[key] = get_lr_params(InputSeries(key))[2]
                  /\ ~HasNaN(InputSeries(key)) =>
                        ~IsNaN(A.cells[key]) /\ ~IsNaN(B.cells[key])

C5_Witness ==
    /\ pc = "params_returned"
    /\ Cardinality(InputCombos) = 2
    /\ \A key \in InputCombos : ~HasNaN(InputSeries(key))
    /\ \E k1 \in InputCombos, k2 \in InputCombos :
          /\ heap[param_ds.alpha].cells[k1] # heap[param_ds.alpha].cells[k2]
          /\ heap[param_ds.beta].cells[k1] # heap[param_ds.beta].cells[k2]

\* what an empty grid yields: no error, no per-series call, and empty arrays
EmptyGridOutcome ==
    /\ pc # "error"
    /\ calls.fit = 0 /\ calls.pred = 0
    /\ ParamsReturned =>
          /\ heap[param_ds.alpha].cells = <<>>
          /\ heap[param_ds.beta].cells = <<>>
    /\ pc = "done" => heap[pred_da].cells = <<>>
    /\ pc # "done" => ENABLED Next

\* C6 as stated: if any of sex_id, age_group_id, location_id is empty, the
\* parameter collection and the prediction array come back empty, with no
\* call of get_lr_params or make_single_predictions and no error.
C6_EmptyGridNeverFails ==
    SomeDimEmpty => EmptyGridOutcome

\* C6, amended: the same, for an input that has at least one year_id label.
C6_EmptyGridWithYears ==
    (SomeDimEmpty /\ Len(da_in.year_id) >= 1) => EmptyGridOutcome

C6_Witness ==
    /\ pc = "done"
    /\ SomeDimEmpty
    /\ Len(da_in.year_id) >= 1
    /\ Len(da_in.sex_id) = 2
    /\ heap[pred_da].cells = <<>>
    /\ heap[pred_da].year_id = AllYears(years)
    /\ calls.fit = 0 /\ calls.pred = 0

\* the input holds one observation per past year, and there is a past year
OnePerPastYear ==
    /\ Len(years.past_years) >= 1
    /\ Len(da_in.year_id) = Len(years.past_years)

\* a series the fitter is said to reject
InvalidSeries(s) == Len(s) < 2 \/ HasNaN(s)

\* C7 as stated: a series with fewer than 2 observations or a non-finite
\* value makes get_lr_params fail, so that no parameter collection and no
\* prediction array is produced.
C7_InvalidSeriesRejected ==
    (OnePerPastYear /\ calls.fit > 0 /\ InvalidSeries(ts)) => pc = "error"

\* the predictions of a combination, in year order of the prediction array
PredSeries(key) ==
    [i \in 1..Len(heap[pred_da].year_id) |->
        heap[pred_da].cells[<<key[1], key[2], key[3], heap[pred_da].year_id[i]>>]]

\* C7, amended: get_lr_params validates nothing.  A single observation y0
\* is fitted as (alpha, beta) = (y0, 0); a series holding a NaN is fitted as
\* (NaN, NaN); neither raises.  get_all_lr_params returns the complete
\* collection with those values in it, and get_decayed_drift_preds the
\* complete prediction array, all-NaN for a combination whose series holds
\* a NaN.  The only errors are those of an input without year_id labels and
\* of a year range without past years.
C7_NoValidation ==
    /\ pc = "error" => (min_raises(da_in) \/ preds_last_raises(years))
    /\ (pc \in {"fit_loop", "params_returned"} /\ calls.fit > 0) =>
          /\ (Len(ts) = 1 /\ ~HasNaN(ts)) => (alpha = ts[1] /\ beta = Rat(0))
          /\ HasNaN(ts) => (IsNaN(alpha) /\ IsNaN(beta))
    /\ ParamsReturned =>
          \A key \in InputCombos :
              /\ HasNaN(InputSeries(key)) =>
                    /\ IsNaN(heap[param_ds.alpha].cells[key])
                    /\ IsNaN(heap[param_ds.beta].cells[key])
              /\ (Len(InputSeries(key)) = 1 /\ ~HasNaN(InputSeries(key))) =>
                    /\ heap[param_ds.alpha].cells[key] = InputSeries(key)[1]
                    /\ heap[param_ds.beta].cells[key] = Rat(0)
    /\ pc = "done" =>
          /\ DOMAIN heap[pred_da].cells =
                CellKeys(da_in.sex_id, da_in.age_group_id, da_in.location_id,
                         AllYears(years), TRUE)
          /\ \A key \in InputCombos :
                HasNaN(InputSeries(key)) =>
                    \A i \in 1..Len(AllYears(years)) : IsNaN(PredSeries(key)[i])

C7_Witness ==
    /\ pc = "done"
    /\ Len(AllYears(years)) = 2
    /\ \E k1 \in InputCombos, k2 \in InputCombos :
          /\ HasNaN(InputSeries(k1))
          /\ Len(InputSeries(k1)) = 2
          /\ IsNaN(PredSeries(k1)[1]) /\ IsNaN(PredSeries(k1)[2])
          /\ Len(InputSeries(k2)) = 2
          /\ ~HasNaN(InputSeries(k2))
          /\ ~IsNaN(PredSeries(k2)[1]) /\ ~IsNaN(PredSeries(k2)[2])

\* C8: the input array is left as it was passed in, cells and coordinate
\* labels alike, and the arrays written to (alpha, beta, the predictions)
\* are objects distinct from the input and from one another.
C8_InputUnchanged ==
    /\ heap[eps_da] = da_in
    /\ pc \in {"fit_loop", "params_returned", "pred_loop", "done"} =>
          /\ param_ds.alpha # eps_da
          /\ param_ds.beta # eps_da
          /\ param_ds.alpha # param_ds.beta
    /\ pc \in {"pred_loop", "done"} =>
          pred_da \notin {eps_da, param_ds.alpha, param_ds.beta}

C8_Witness ==
    /\ pc = "done"
    /\ calls.fit = 2 /\ calls.pred = 2
    /\ heap[eps_da] = da_in
    /\ \E key \in InputCombos :
          /\ ~IsNaN(heap[param_ds.alpha].cells[key])
          /\ heap[param_ds.alpha].cells[key] # heap[param_ds.beta].cells[key]

\* C9: the number of observations passed to get_lr_params equals
\* P = len(past_years), whatever the number of year_id labels of the input
\* (stated for year ranges with at least one past year).
C9_FitOverPastYears ==
    (calls.fit > 0 /\ Len(years.past_years) >= 1) =>
        Len(ts) = Len(years.past_years)

\* the k-th smallest year_id label of the input
KthYear(k) ==
    CHOOSE y \in Labels(da_in.year_id) :
        Cardinality({z \in Labels(da_in.year_id) : z < y}) = k - 1

\* C10: the series passed to get_lr_params is ordered by ascending year_id:
\* its k-th element is the value of the k-th smallest year, also when the
\* year_id coordinate is stored in descending order (stated for inputs with
\* one finite observation per past year).
C10_SeriesAscendingByYear ==
    (pc \in {"fit_loop", "params_returned"} /\ calls.fit > 0
        /\ OnePerPastYear /\ ~HasNaN(ts)) =>
        \A k \in 1..Len(ts) :
            ts[k] = da_in.cells[<<sub_dict[1], sub_dict[2], sub_dict[3], KthYear(k)>>]

============================================================================
